---- MODULE Spec2Model ----
(***************************************************************************)
(* CCompressZlib.h: three static inline functions that give a language     *)
(* without C macros access to zlib's deflateInit2 / inflateInit2 macros    *)
(* and to a void* -> Bytef* pointer cast.                                  *)
(*                                                                         *)
(* The header is the whole of the repository's C code.  The zlib library   *)
(* it calls is an external dependency; the part of it the wrappers reach   *)
(* (the two initialisers) is modelled here as the environment, from zlib's *)
(* documented contract, with allocation failure and a header/library       *)
(* version mismatch as choices of the environment.                         *)
(***************************************************************************)
EXTENDS Integers, FiniteSets, Sequences, TLC

(* ------------------------------ bounds --------------------------------- *)

\* number of z_stream objects the caller owns (pointer 0 is Z_NULL)
NStreams == 2
\* addresses a void* may hold, 0 (NULL) .. MaxAddr
MaxAddr == 3
\* calls the caller makes through the header in one run
MaxCalls == 2

(* ------------------------- zlib.h constants ---------------------------- *)

Z_OK == 0
Z_STREAM_ERROR == -2
Z_MEM_ERROR == -4
Z_VERSION_ERROR == -6
Z_DEFAULT_COMPRESSION == -1
Z_DEFLATED == 8
Z_FIXED == 4
MAX_MEM_LEVEL == 9
\* first character of ZLIB_VERSION in the zlib.h the header is compiled with
ZLIB_VERSION == 1
\* the null pointer
Z_NULL == 0

(* --------------------------- argument pools ---------------------------- *)

StreamPtrs == 0..NStreams
Levels == {Z_DEFAULT_COMPRESSION, 10}
Methods == {Z_DEFLATED, 9}
DeflateWindowBits == {-16, 15, 31}
InflateWindowBits == {-16, 0, 15, 31, 48}
MemLevels == {0, 9}
Strategies == {Z_FIXED, 5}
\* outcome of the library's allocations during one initialisation
Allocs == {"ok", "no_state", "no_window"}
LibVersions == {1, 2}
Addrs == 0..MaxAddr

(* ------------------------------ state ---------------------------------- *)

VARIABLES
    strms,   \* the caller's z_stream objects: strms[p] for pointer p # Z_NULL
    lib,     \* first character of the version of the zlib library linked in
    call,    \* the last call made through the header: arguments and result
    ncalls   \* number of calls made so far

vars == <<strms, lib, call, ncalls>>

\* strm->state == Z_NULL
NoState ==
    [kind |-> "Z_NULL", wrap |-> 0, w_bits |-> 0, level |-> 0,
     memLevel |-> 0, strategy |-> 0]

\* a z_stream as the caller creates it (zeroed)
NewStream == [state |-> NoState, msg |-> "Z_NULL"]

NoPtr == [type |-> "none", addr |-> 0]

\* the caller's streams before any call
NewStreams == [p \in 1..NStreams |-> NewStream]

NoCall ==
    [op |-> "none", strm |-> 0, level |-> 0, method |-> 0, windowBits |-> 0,
     memLevel |-> 0, strategy |-> 0, alloc |-> "ok", pre |-> NewStreams,
     ret |-> 0, in |-> NoPtr, out |-> NoPtr]

(* --------------------- zlib: the two initialisers ---------------------- *)

\* deflateInit2_ of zlib (deflate.c), up to the point where it returns:
\* version check, null check, normalisation of level and windowBits,
\* parameter validation, allocation, deflateReset.
deflateInit2_(heap, strm, level, method, windowBits, memLevel, strategy, version, alloc) ==
    LET lvl  == IF level = Z_DEFAULT_COMPRESSION THEN 6 ELSE level
        wrap == IF windowBits < 0 THEN 0 ELSE IF windowBits > 15 THEN 2 ELSE 1
        wb   == IF windowBits < 0 THEN 0 - windowBits
                ELSE IF windowBits > 15 THEN windowBits - 16 ELSE windowBits
        bad  == \/ windowBits < -15
                \/ memLevel < 1 \/ memLevel > MAX_MEM_LEVEL
                \/ method # Z_DEFLATED
                \/ wb < 8 \/ wb > 15
                \/ lvl < 0 \/ lvl > 9
                \/ strategy < 0 \/ strategy > Z_FIXED
                \/ (wb = 8 /\ wrap # 1)
        s    == [kind |-> "deflate", wrap |-> wrap,
                 w_bits |-> IF wb = 8 THEN 9 ELSE wb,
                 level |-> lvl, memLevel |-> memLevel, strategy |-> strategy]
    IN  IF version # lib THEN [ret |-> Z_VERSION_ERROR, strms |-> heap]
        ELSE IF strm = Z_NULL THEN [ret |-> Z_STREAM_ERROR, strms |-> heap]
        ELSE IF bad
            THEN [ret |-> Z_STREAM_ERROR,
                  strms |-> [heap EXCEPT ![strm].msg = "Z_NULL"]]
        ELSE IF alloc = "no_state"
            THEN [ret |-> Z_MEM_ERROR,
                  strms |-> [heap EXCEPT ![strm].msg = "Z_NULL"]]
        ELSE IF alloc = "no_window"
            THEN [ret |-> Z_MEM_ERROR,
                  strms |-> [heap EXCEPT ![strm] =
                                [state |-> NoState, msg |-> "insufficient memory"]]]
        ELSE [ret |-> Z_OK,
              strms |-> [heap EXCEPT ![strm] = [state |-> s, msg |-> "Z_NULL"]]]

\* the macro deflateInit2 of zlib.h: adds ZLIB_VERSION (and sizeof(z_stream))
deflateInit2(heap, strm, level, method, windowBits, memLevel, strategy, alloc) ==
    deflateInit2_(heap, strm, level, method, windowBits, memLevel, strategy,
                  ZLIB_VERSION, alloc)

\* inflateInit2_ of zlib (inflate.c) with inflateReset2: version check, null
\* check, allocation of the state, then the windowBits validation; a failed
\* validation frees the state again.
inflateInit2_(heap, strm, windowBits, version, alloc) ==
    LET wrap == IF windowBits < 0 THEN 0 ELSE (windowBits \div 16) + 5
        wb   == IF windowBits < 0 THEN 0 - windowBits
                ELSE IF windowBits < 48 THEN windowBits % 16 ELSE windowBits
        bad  == \/ windowBits < -15
                \/ (wb # 0 /\ (wb < 8 \/ wb > 15))
        s    == [kind |-> "inflate", wrap |-> wrap, w_bits |-> wb,
                 level |-> 0, memLevel |-> 0, strategy |-> 0]
    IN  IF version # lib THEN [ret |-> Z_VERSION_ERROR, strms |-> heap]
        ELSE IF strm = Z_NULL THEN [ret |-> Z_STREAM_ERROR, strms |-> heap]
        ELSE IF alloc = "no_state"
            THEN [ret |-> Z_MEM_ERROR,
                  strms |-> [heap EXCEPT ![strm].msg = "Z_NULL"]]
        ELSE IF bad
            THEN [ret |-> Z_STREAM_ERROR,
                  strms |-> [heap EXCEPT ![strm] =
                                [state |-> NoState, msg |-> "Z_NULL"]]]
        ELSE [ret |-> Z_OK,
              strms |-> [heap EXCEPT ![strm] = [state |-> s, msg |-> "Z_NULL"]]]

\* the macro inflateInit2 of zlib.h
inflateInit2(heap, strm, windowBits, alloc) ==
    inflateInit2_(heap, strm, windowBits, ZLIB_VERSION, alloc)

(* ------------------------ CCompressZlib.h ------------------------------ *)

\* a wrapper that passes memLevel where windowBits belongs and vice versa
Mutant_deflateInit2_swapped(heap, strm, level, method, windowBits, memLevel, strategy, alloc) ==
    deflateInit2(heap, strm, level, method, memLevel, windowBits, strategy, alloc)

CCompressZlib_deflateInit2(heap, strm, level, method, windowBits, memLevel, strategy, alloc) ==
    deflateInit2(heap, strm, level, method, windowBits, memLevel, strategy, alloc)

\* a wrapper that drops the library's status and reports success
Mutant_inflateInit2_swallow(heap, strm, windowBits, alloc) ==
    [inflateInit2(heap, strm, windowBits, alloc) EXCEPT !.ret = Z_OK]

CCompressZlib_inflateInit2(heap, strm, windowBits, alloc) ==
    inflateInit2(heap, strm, windowBits, alloc)

\* a cast that yields the address of the following byte
Mutant_voidPtr_offByOne(in) ==
    [type |-> "Bytef", addr |-> IF in.addr = 0 THEN 0 ELSE in.addr + 1]

\* (Bytef *)in: the static type changes, the address does not
CCompressZlib_voidPtr_to_BytefPtr(in) ==
    [type |-> "Bytef", addr |-> in.addr]

(* ----------------------------- behaviour ------------------------------- *)

Init ==
    /\ strms = NewStreams
    /\ lib \in LibVersions
    /\ call = NoCall
    /\ ncalls = 0

\* the caller invokes CCompressZlib_deflateInit2
DeflateInit ==
    /\ ncalls < MaxCalls
    /\ ncalls' = ncalls + 1
    /\ \E strm \in StreamPtrs, level \in Levels, method \in Methods,
       windowBits \in DeflateWindowBits, memLevel \in MemLevels,
       strategy \in Strategies, alloc \in Allocs :
        LET r == CCompressZlib_deflateInit2(strms, strm, level, method,
                                            windowBits, memLevel, strategy, alloc)
        IN  /\ strms' = r.strms
            /\ call' = [op |-> "deflateInit2", strm |-> strm, level |-> level,
                        method |-> method, windowBits |-> windowBits,
                        memLevel |-> memLevel, strategy |-> strategy,
                        alloc |-> alloc, pre |-> strms, ret |-> r.ret,
                        in |-> NoPtr, out |-> NoPtr]
            /\ UNCHANGED lib

\* the caller invokes CCompressZlib_inflateInit2
InflateInit ==
    /\ ncalls < MaxCalls
    /\ ncalls' = ncalls + 1
    /\ \E strm \in StreamPtrs, windowBits \in InflateWindowBits,
       alloc \in Allocs \ {"no_window"} :
        LET r == CCompressZlib_inflateInit2(strms, strm, windowBits, alloc)
        IN  /\ strms' = r.strms
            /\ call' = [op |-> "inflateInit2", strm |-> strm, level |-> 0,
                        method |-> 0, windowBits |-> windowBits,
                        memLevel |-> 0, strategy |-> 0,
                        alloc |-> alloc, pre |-> strms, ret |-> r.ret,
                        in |-> NoPtr, out |-> NoPtr]
            /\ UNCHANGED lib

\* the caller invokes CCompressZlib_voidPtr_to_BytefPtr
VoidPtrToBytefPtr ==
    /\ ncalls < MaxCalls
    /\ ncalls' = ncalls + 1
    /\ \E a \in Addrs :
        LET in == [type |-> "void", addr |-> a]
        IN  /\ call' = [op |-> "voidPtr_to_BytefPtr", strm |-> 0, level |-> 0,
                        method |-> 0, windowBits |-> 0, memLevel |-> 0,
                        strategy |-> 0, alloc |-> "ok", pre |-> strms, ret |-> 0,
                        in |-> in, out |-> CCompressZlib_voidPtr_to_BytefPtr(in)]
            /\ UNCHANGED <<strms, lib>>

Next == DeflateInit \/ InflateInit \/ VoidPtrToBytefPtr

Spec == Init /\ [][Next]_vars

(* ------------------------------ claims --------------------------------- *)

\* what a direct use of zlib's macro with the arguments of the last call,
\* in the order the caller gave them, does to the streams as they were
DirectCall ==
    IF call.op = "deflateInit2"
    THEN deflateInit2(call.pre, call.strm, call.level, call.method,
                      call.windowBits, call.memLevel, call.strategy, call.alloc)
    ELSE inflateInit2(call.pre, call.strm, call.windowBits, call.alloc)

IsInit == call.op \in {"deflateInit2", "inflateInit2"}

\* C2: the two initialisation wrappers are pure forwarding calls: after
\* CCompressZlib_deflateInit2(strm, level, method, windowBits, memLevel,
\* strategy) every stream is in the state, and the caller holds the status,
\* that deflateInit2 with those six arguments in that order produces from
\* the same starting state; likewise CCompressZlib_inflateInit2 and
\* inflateInit2(strm, windowBits).  Nothing else is changed.
C2_Forwarding ==
    IsInit => /\ strms = DirectCall.strms
              /\ call.ret = DirectCall.ret

\* C2 witness: a forwarded deflateInit2 that succeeded on a stream which an
\* earlier call had already initialised for inflate, and whose windowBits
\* and memLevel differ.
C2_Witness ==
    /\ call.op = "deflateInit2"
    /\ call.ret = Z_OK
    /\ call.strm # Z_NULL
    /\ call.windowBits # call.memLevel
    /\ call.pre[call.strm].state.kind = "inflate"
    /\ strms[call.strm].state.kind = "deflate"

\* the ranges zlib.h documents for the arguments the claim names
LevelInRange(level) == level = Z_DEFAULT_COMPRESSION \/ level \in 0..9

DeflateWindowInRange(w) ==
    w \in 8..15 \/ w \in -15..-8 \/ w \in 24..31

InflateWindowInRange(w) ==
    w \in {0, 16, 32} \/ w \in 8..15 \/ w \in -15..-8
        \/ w \in 24..31 \/ w \in 40..47

\* the last call passed an out-of-range level, window size or buffer
OutOfRange ==
    \/ call.strm = Z_NULL
    \/ call.op = "deflateInit2" /\ ~LevelInRange(call.level)
    \/ call.op = "deflateInit2" /\ ~DeflateWindowInRange(call.windowBits)
    \/ call.op = "inflateInit2" /\ ~InflateWindowInRange(call.windowBits)

NonSuccess == {Z_STREAM_ERROR, Z_MEM_ERROR, Z_VERSION_ERROR}

\* C3: no error of initialisation is swallowed.  The status the caller
\* receives is the one zlib returned; a call with an out-of-range level,
\* window size or a null stream yields a non-success status (Z_STREAM_ERROR
\* when the library version matches and allocation succeeds); and a
\* success status is reported only when the stream really was set up for
\* the requested direction.
C3_ErrorsSurfaced ==
    IsInit =>
        /\ call.ret \in NonSuccess \cup {Z_OK}
        /\ (DirectCall.ret # Z_OK => call.ret = DirectCall.ret)
        /\ (OutOfRange => call.ret \in NonSuccess)
        /\ (OutOfRange /\ lib = ZLIB_VERSION /\ call.alloc = "ok"
                => call.ret = Z_STREAM_ERROR)
        /\ (call.ret = Z_OK =>
                /\ call.strm # Z_NULL
                /\ strms[call.strm].state.kind =
                        (IF call.op = "deflateInit2" THEN "deflate" ELSE "inflate"))

\* C3 witness: inflateInit2 through the wrapper with a window size no
\* format accepts, on a stream that was set up before: the caller got
\* Z_STREAM_ERROR and the stream holds no state.
C3_Witness ==
    /\ call.op = "inflateInit2"
    /\ call.strm # Z_NULL
    /\ ~InflateWindowInRange(call.windowBits)
    /\ call.pre[call.strm].state.kind # "Z_NULL"
    /\ call.ret = Z_STREAM_ERROR
    /\ strms[call.strm].state = NoState

\* C10: CCompressZlib_voidPtr_to_BytefPtr returns a Bytef pointer to the
\* address it was given, for the null pointer as for any other, and leaves
\* every stream as it was.
C10_CastIdentity ==
    call.op = "voidPtr_to_BytefPtr" =>
        /\ call.out.type = "Bytef"
        /\ call.out.addr = call.in.addr
        /\ strms = call.pre

\* C10 witness: a non-null pointer was cast while a stream was initialised.
C10_Witness ==
    /\ call.op = "voidPtr_to_BytefPtr"
    /\ call.in.addr # 0
    /\ call.out.addr = call.in.addr
    /\ \E p \in 1..NStreams : strms[p].state.kind # "Z_NULL"

====
